---- MODULE Spec2Model ----
(***************************************************************************)
(* Verification model of the keystone example configurations and the      *)
(* relationship-filtering access-control test.                            *)
(*                                                                         *)
(*  - SpecAC      : tests/api-tests/relationships/filtering/               *)
(*                  access-control.test.ts                                 *)
(*  - SpecMedia   : the Media list of the union-relationship example       *)
(*  - SpecSession : examples/custom-session-redis/schema.ts                *)
(*                                                                         *)
(* The three parts share no state; each specification leaves the other     *)
(* parts' variables at their initial value.                                *)
(***************************************************************************)
EXTENDS Integers, Sequences, FiniteSets, TLC

VARIABLES
    \* ---- access-control test ----
    acPc,        \* position in the test body
    postTable,   \* PostLimitedRead rows
    userTable,   \* UserToPostLimitedRead rows
    postIds,     \* postIds[i]: id of the post created for postNames[i] ("" before)
    nextId,      \* number of ids handed out by the database so far
    username,    \* the username sampled by the test
    userId,      \* user.id returned by the sudo createOne
    connectArg,  \* indexes i whose postIds[i] were connected on creation
    whereArg,    \* the `where` argument of the posts field of the query
    item,        \* result of the non-sudo findOne
    \* ---- Media list ----
    medias,      \* Media rows
    mediaCount,  \* Media ids handed out
    mLast,       \* the last Media mutation: operation, input, errors
    \* ---- custom-session User list ----
    users,       \* User rows
    userCount,   \* User ids handed out
    req          \* the last request: session, operation, outcome

acVars == <<acPc, postTable, userTable, postIds, nextId, username, userId,
            connectArg, whereArg, item>>
mediaVars == <<medias, mediaCount, mLast>>
sessVars == <<users, userCount, req>>
vars == <<acVars, mediaVars, sessVars>>

(***************************************************************************)
(* Bounds                                                                  *)
(***************************************************************************)
MaxNameLen == 3

\* characters the bounded alphanumeric generator draws from
AlphaNumChars == {"a", "b", "d"}

RECURSIVE SeqsUpTo(_, _)
SeqsUpTo(S, n) ==
    IF n = 0 THEN {<<>>}
    ELSE LET shorter == SeqsUpTo(S, n - 1)
         IN  shorter \cup {Append(s, c) : s \in shorter, c \in S}

(***************************************************************************)
(* access-control.test.ts : configuration                                  *)
(***************************************************************************)
\* gen.alphaNumString.notEmpty()
alphanumGenerator == {s \in SeqsUpTo(AlphaNumChars, MaxNameLen) : Len(s) > 0}

\* sampleOne(alphanumGenerator) for the content of a post
contentSamples == {s \in alphanumGenerator : Len(s) = 1 /\ s[1] \in {"a", "b"}}

postNames == <<"Post 1", "Post 2", "Post 3">>

Bad == <<"b", "a", "d">>

\* access.filter.query of UserToPostLimitedRead: { username: { not: { equals: 'bad' } } }
UserToPostLimitedReadQueryFilter(row) == ~(row.username = Bad)

PostLimitedReadQueryFilterOpen(row) == TRUE
PostLimitedReadQueryFilterFirst(row) == row.name \in {postNames[1]}
\* access.filter.query of PostLimitedRead: { name: { in: [postNames[1]] } }
\* (postNames[1] of the zero-based source array is the second name)
PostLimitedReadQueryFilter(row) == row.name \in {postNames[2]}

(***************************************************************************)
(* The framework's query engine, as far as the test exercises it          *)
(***************************************************************************)
\* the absent id
NullId == 0
NullItem == [kind |-> "null", id |-> NullId, username |-> <<>>, posts |-> {}]

\* the id the database hands out for its n-th row
IdOf(n) == 100 + n

\* rows of a table visible to a context
VisibleUsers(sudo) ==
    {u \in userTable : sudo \/ UserToPostLimitedReadQueryFilter(u)}
VisiblePosts(sudo) ==
    {p \in postTable : sudo \/ PostLimitedReadQueryFilter(p)}

\* resolution of the to-one field PostLimitedRead.author
ResolveAuthor(post, sudo) ==
    LET found == {u \in VisibleUsers(sudo) : u.id = post.author}
    IN  IF found = {} THEN [kind |-> "null", id |-> NullId, username |-> <<>>]
        ELSE LET u == CHOOSE u \in found : TRUE
             IN  [kind |-> "object", id |-> u.id, username |-> u.username]

ResolvePostsNoAnd(user, where, sudo) ==
    {[id |-> p.id, author |-> ResolveAuthor(p, sudo)] :
        p \in {q \in postTable :
                 /\ q.author = user.id
                 /\ IF where.given THEN q.id \in where.ids
                    ELSE sudo \/ PostLimitedReadQueryFilter(q)}}
\* resolution of the to-many field UserToPostLimitedRead.posts: the related
\* rows, AND the caller's where clause, AND the access filter of the list
ResolvePosts(user, where, sudo) ==
    {[id |-> p.id, author |-> ResolveAuthor(p, sudo)] :
        p \in {q \in VisiblePosts(sudo) :
                 /\ q.author = user.id
                 /\ (where.given => q.id \in where.ids)}}

\* context.query.UserToPostLimitedRead.findOne({ where: { id }, query })
FindOneUser(id, where, sudo) ==
    LET found == {u \in VisibleUsers(sudo) : u.id = id}
    IN  IF found = {} THEN NullItem
        ELSE LET u == CHOOSE u \in found : TRUE
             IN  [kind |-> "object", id |-> u.id, username |-> u.username,
                  posts |-> ResolvePosts(u, where, sudo)]

(***************************************************************************)
(* access-control.test.ts : the test body                                  *)
(***************************************************************************)
PostIndexes == 1..Len(postNames)
NoWhere == [given |-> FALSE, ids |-> {}]

AcInit ==
    /\ acPc = "createPosts"
    /\ postTable = {}
    /\ userTable = {}
    /\ postIds = [i \in PostIndexes |-> NullId]
    /\ nextId = 0
    /\ username = <<>>
    /\ userId = NullId
    /\ connectArg = {}
    /\ whereArg = NoWhere
    /\ item = NullItem

\* one of the sudo createOne calls of the Promise.all; they complete in any order
CreatePost(i) ==
    /\ acPc = "createPosts"
    /\ postIds[i] = NullId
    /\ \E content \in contentSamples :
         postTable' = postTable \cup
             {[id |-> IdOf(nextId + 1), name |-> postNames[i],
               content |-> content, author |-> NullId]}
    /\ postIds' = [postIds EXCEPT ![i] = IdOf(nextId + 1)]
    /\ nextId' = nextId + 1
    /\ acPc' = IF \A j \in PostIndexes \ {i} : postIds[j] # NullId
               THEN "createUser" ELSE "createPosts"
    /\ UNCHANGED <<userTable, username, userId, connectArg, whereArg, item>>

\* sudo createOne of the user, connecting postIds[i] for i in idx
CreateUserWithPosts(name, idx) ==
    /\ acPc = "createUser"
    /\ username' = name
    /\ connectArg' = idx
    /\ userId' = IdOf(nextId + 1)
    /\ nextId' = nextId + 1
    /\ userTable' = userTable \cup {[id |-> IdOf(nextId + 1), username |-> name]}
    /\ postTable' = {IF \E i \in idx : postIds[i] = p.id
                     THEN [p EXCEPT !.author = IdOf(nextId + 1)] ELSE p :
                     p \in postTable}
    /\ acPc' = "findOne"
    /\ UNCHANGED <<postIds, whereArg, item>>

\* the non-sudo findOne of the user, with or without a where on posts
FindOne(where) ==
    /\ acPc = "findOne"
    /\ whereArg' = where
    /\ item' = FindOneUser(userId, where, FALSE)
    /\ acPc' = "done"
    /\ UNCHANGED <<postTable, userTable, postIds, nextId, username, userId, connectArg>>

AcNext ==
    \/ \E i \in PostIndexes : CreatePost(i)
    \/ \E name \in alphanumGenerator, idx \in SUBSET PostIndexes :
          CreateUserWithPosts(name, idx)
    \/ \E S \in SUBSET {IdOf(n) : n \in PostIndexes} :
          FindOne([given |-> TRUE, ids |-> S])
    \/ FindOne(NoWhere)
(***************************************************************************)
(* Media list : values of the hook arguments                               *)
(***************************************************************************)
MaxMedias == 1

Undef == "undefined"
Null == "null"

\* a to-one relationship input: absent, null, or an object whose keys may be
\* absent; an object never carries both connect and create
RelObject(disconnects) ==
    {r \in [kind : {"object"}, connect : {Undef, "existing"},
            create : {Undef, "data"}, disconnect : disconnects] :
        ~(r.connect = "existing" /\ r.create = "data")}
NoRel(k) == [kind |-> k, connect |-> Undef, create |-> Undef, disconnect |-> Undef]
RelCreateInput == {NoRel(Undef), NoRel(Null)} \cup RelObject({Undef})
RelUpdateInput == {NoRel(Undef), NoRel(Null)} \cup RelObject({Undef, "true"})

MediaCreateInput == [description : {"d"}, post : RelCreateInput, link : RelCreateInput]
MediaUpdateInput == [description : {Undef, "e"}, post : RelUpdateInput, link : RelUpdateInput]

\* JavaScript: !value for a relationship input
Falsy(x) == x.kind \in {Undef, Null}

\* JavaScript: x?.connect ?? x?.create
ConnectOrCreate(x) ==
    IF Falsy(x) THEN Undef
    ELSE IF x.connect \notin {Undef, Null} THEN x.connect
    ELSE x.create

\* JavaScript: x?.disconnect
Disconnects(x) == ~Falsy(x) /\ x.disconnect = "true"

RequiredMsg == "A media type relationship is required"
OnlyOneMsg == "Only one media type relationship can be selected"
CannotChangeMsg == "Cannot change media type relationship type"

(***************************************************************************)
(* Media list : hooks                                                      *)
(***************************************************************************)
\* [post, link].filter(x => x?.connect ?? x?.create)
RelValues(inputData) ==
    SelectSeq(<<inputData.post, inputData.link>>,
              LAMBDA x : ConnectOrCreate(x) \notin {Undef, Null})

validateCreatePresence(inputData) ==
    LET values == SelectSeq(<<inputData.post, inputData.link>>,
                            LAMBDA x : ~Falsy(x))
    IN  IF Len(values) = 0 THEN <<RequiredMsg>>
        ELSE IF Len(values) > 1 THEN <<OnlyOneMsg>>
        ELSE <<>>
\* hooks.validate.create: the validation errors it adds
validateCreate(inputData) ==
    LET values == RelValues(inputData)
    IN  IF Len(values) = 0 THEN <<RequiredMsg>>
        ELSE IF Len(values) > 1 THEN <<OnlyOneMsg>>
        ELSE <<>>

\* hooks.validate.update: the validation errors it adds
validateUpdate(inputData) ==
    IF Disconnects(inputData.post) \/ Disconnects(inputData.link)
    THEN <<CannotChangeMsg>>
    ELSE IF Len(RelValues(inputData)) > 1 THEN <<OnlyOneMsg>>
    ELSE <<>>

DisconnectTrue ==
    [kind |-> "object", connect |-> Undef, create |-> Undef, disconnect |-> "true"]

\* hooks.resolveInput.update: the first of post, link that is set and does not
\* disconnect is kept and the other is disconnected; otherwise both are dropped
resolveInputUpdate(resolvedData) ==
    IF ~Falsy(resolvedData.post) /\ ~Disconnects(resolvedData.post)
    THEN [resolvedData EXCEPT !.link = DisconnectTrue]
    ELSE IF ~Falsy(resolvedData.link) /\ ~Disconnects(resolvedData.link)
    THEN [resolvedData EXCEPT !.post = DisconnectTrue]
    ELSE [resolvedData EXCEPT !.post = NoRel(Undef), !.link = NoRel(Undef)]

(***************************************************************************)
(* Media list : the framework's create and update mutations                *)
(***************************************************************************)
\* the foreign key a resolved relationship input stores; "created" is the id of
\* the row a nested create makes
RelId(x, old) ==
    IF Falsy(x) THEN old
    ELSE IF Disconnects(x) THEN Null
    ELSE IF x.connect \notin {Undef, Null} THEN x.connect
    ELSE IF x.create # Undef THEN "created"
    ELSE old

NoInput == [description |-> Undef, post |-> NoRel(Undef), link |-> NoRel(Undef)]

MediaInit ==
    /\ medias = {}
    /\ mediaCount = 0
    /\ mLast = [op |-> "none", id |-> 0, inputData |-> NoInput, errors |-> <<>>]

CommitAlways(errors, before, after) == after
\* a mutation with validation errors is aborted and writes nothing
Commit(errors, before, after) == IF Len(errors) > 0 THEN before ELSE after

\* createMedia(data: inputData)
CreateMedia(inputData) ==
    LET errors == validateCreate(inputData)
        row == [id |-> mediaCount + 1, description |-> inputData.description,
                postId |-> RelId(inputData.post, Null),
                linkId |-> RelId(inputData.link, Null)]
    IN  /\ mediaCount < MaxMedias
        /\ medias' = Commit(errors, medias, medias \cup {row})
        /\ mediaCount' = Commit(errors, mediaCount, mediaCount + 1)
        /\ mLast' = [op |-> "create", id |-> mediaCount + 1,
                     inputData |-> inputData, errors |-> errors]

\* updateMedia(where: { id }, data: inputData): resolveInput, then validate
UpdateMedia(m, inputData) ==
    LET resolvedData == resolveInputUpdate(inputData)
        errors == validateUpdate(inputData)
        row == [id |-> m.id,
                description |-> IF resolvedData.description = Undef
                                THEN m.description ELSE resolvedData.description,
                postId |-> RelId(resolvedData.post, m.postId),
                linkId |-> RelId(resolvedData.link, m.linkId)]
    IN  /\ m \in medias
        /\ medias' = Commit(errors, medias, (medias \ {m}) \cup {row})
        /\ mLast' = [op |-> "update", id |-> m.id,
                     inputData |-> inputData, errors |-> errors]
        /\ UNCHANGED mediaCount

MediaNext ==
    \/ \E inputData \in MediaCreateInput : CreateMedia(inputData)
    \/ \E m \in medias, inputData \in MediaUpdateInput : UpdateMedia(m, inputData)
(***************************************************************************)
(* custom-session-redis/schema.ts : access functions                       *)
(***************************************************************************)
MaxUsers == 2

UserNames == {"alice", "bob"}

\* type Session, or no session at all
NoSession == [kind |-> Undef, listKey |-> "", itemId |-> 0, something |-> ""]
Sessions ==
    {NoSession} \cup
    [kind : {"object"}, listKey : {"User", "Other"},
     itemId : 1..(MaxUsers + 1), something : {"", "x"}]

\* the values an access filter function can return
BoolFilter(b) == [kind |-> "boolean", bool |-> b, idEquals |-> 0]
IdEqualsFilter(id) == [kind |-> "where", bool |-> FALSE, idEquals |-> id]

hasSessionForUserList(args) ==
    args.session.kind = "object" /\ args.session.listKey = "User"
\* function hasSession({ session }) { return Boolean(session) }
hasSession(args) == args.session.kind \notin {Undef, Null}

\* unfiltered, from the framework's access helpers
unfiltered(args) == BoolFilter(TRUE)

isSameUserFilterAnyUser(args) ==
    IF args.session.kind \in {Undef, Null} THEN BoolFilter(FALSE)
    ELSE BoolFilter(TRUE)
\* function isSameUserFilter({ session })
isSameUserFilter(args) ==
    IF args.session.kind \in {Undef, Null} THEN BoolFilter(FALSE)
    ELSE IdEqualsFilter(args.session.itemId)

\* lists.User.access
UserAccessOperation(op, args) == hasSession(args)
UserAccessFilter(op, args) ==
    CASE op = "query"  -> unfiltered(args)
      [] op = "update" -> isSameUserFilter(args)
      [] op = "delete" -> isSameUserFilter(args)
      [] OTHER         -> BoolFilter(TRUE)

(***************************************************************************)
(* custom-session-redis : the framework's operations on the User list      *)
(***************************************************************************)
\* does a row pass an access filter value
Matches(filter, row) ==
    IF filter.kind = "boolean" THEN filter.bool ELSE row.id = filter.idEquals

\* name is isIndexed: 'unique'
NameFree(name, except) == \A u \in users : u.id = except \/ u.name # name

Request(op, session, target) ==
    [op |-> op, session |-> session, target |-> target,
     allowed |-> UserAccessOperation(op, [session |-> session]),
     filter |-> UserAccessFilter(op, [session |-> session]),
     result |-> {}]

SessInit ==
    /\ users = {}
    /\ userCount = 0
    /\ req = Request("none", NoSession, 0)

QueryUsers(session) ==
    LET r == Request("query", session, 0)
    IN  /\ req' = [r EXCEPT !.result =
                      IF r.allowed THEN {u.id : u \in {v \in users : Matches(r.filter, v)}}
                      ELSE {}]
        /\ UNCHANGED <<users, userCount>>

CreateUser(session, name) ==
    LET r == Request("create", session, userCount + 1)
        ok == r.allowed /\ NameFree(name, 0)
    IN  /\ userCount < MaxUsers
        /\ users' = IF ok THEN users \cup {[id |-> userCount + 1, name |-> name,
                                            password |-> "secret"]}
                    ELSE users
        /\ userCount' = IF ok THEN userCount + 1 ELSE userCount
        /\ req' = [r EXCEPT !.result = IF ok THEN {userCount + 1} ELSE {}]

UpdateUser(session, id, name) ==
    LET r == Request("update", session, id)
        hit == {u \in users : u.id = id /\ Matches(r.filter, u)}
        ok == r.allowed /\ hit # {} /\ NameFree(name, id)
    IN  /\ users' = IF ok THEN {IF u \in hit THEN [u EXCEPT !.name = name] ELSE u :
                                  u \in users}
                    ELSE users
        /\ req' = [r EXCEPT !.result = IF ok THEN {id} ELSE {}]
        /\ UNCHANGED userCount

DeleteUser(session, id) ==
    LET r == Request("delete", session, id)
        hit == {u \in users : u.id = id /\ Matches(r.filter, u)}
        ok == r.allowed /\ hit # {}
    IN  /\ users' = IF ok THEN users \ hit ELSE users
        /\ req' = [r EXCEPT !.result = IF ok THEN {id} ELSE {}]
        /\ UNCHANGED userCount

SessNext ==
    \/ \E session \in Sessions : QueryUsers(session)
    \/ \E session \in Sessions, name \in UserNames : CreateUser(session, name)
    \/ \E session \in Sessions, id \in 1..(MaxUsers + 1), name \in UserNames :
          UpdateUser(session, id, name)
    \/ \E session \in Sessions, id \in 1..(MaxUsers + 1) : DeleteUser(session, id)

(***************************************************************************)
(* Specifications                                                          *)
(***************************************************************************)
Init == AcInit /\ MediaInit /\ SessInit

NextAC == AcNext /\ UNCHANGED <<mediaVars, sessVars>>
NextMedia == MediaNext /\ UNCHANGED <<acVars, sessVars>>
NextSession == SessNext /\ UNCHANGED <<acVars, mediaVars>>

SpecAC == Init /\ [][NextAC]_vars
SpecMedia == Init /\ [][NextMedia]_vars
SpecSession == Init /\ [][NextSession]_vars

(***************************************************************************)
(* Properties of the access-control test (SpecAC)                          *)
(***************************************************************************)
\* ids of the posts in the result of the query
ResultPostIds == {p.id : p \in item.posts}

C8_UserNeverHidden ==
    acPc = "done" =>
        /\ item.kind = "object"
        /\ item.id = userId
        /\ item.username = username
        /\ \A p \in item.posts :
              p.author.kind = "object" /\ p.author.id = userId
                 /\ p.author.username = username

(***************************************************************************)
(* Properties of the Media list (SpecMedia)                                *)
(***************************************************************************)
\* an input that carries neither a connect nor a create
CarriesNothing(x) ==
    x.kind # "object" \/ (x.connect \in {Undef, Null} /\ x.create \in {Undef, Null})

\* C3: a Media create whose post and link both carry neither connect nor
\* create gets exactly the error 'A media type relationship is required'.
C3_RelationshipRequired ==
    (/\ mLast.op = "create"
     /\ CarriesNothing(mLast.inputData.post)
     /\ CarriesNothing(mLast.inputData.link)) =>
        mLast.errors = <<"A media type relationship is required">>

\* an empty object for post and nothing for link
C3_Witness ==
    /\ mLast.op = "create"
    /\ mLast.inputData.post.kind = "object"
    /\ CarriesNothing(mLast.inputData.post)
    /\ mLast.inputData.link.kind = Undef
    /\ mLast.errors = <<"A media type relationship is required">>

\* C7: a Media create or update that ends with a validation error leaves the
\* Media rows as they were: no new item, no changed field.
C7_ValidationErrorAborts ==
    [][Len(mLast'.errors) > 0 => medias' = medias /\ mediaCount' = mediaCount]_vars

\* a rejected update of an existing item that asked for changes
C7_Witness ==
    /\ mLast.op = "update"
    /\ Len(mLast.errors) > 0
    /\ mLast.inputData.description # Undef
    /\ \E m \in medias : m.id = mLast.id /\ m.description # mLast.inputData.description

(***************************************************************************)
(* Properties of the custom-session User list (SpecSession)                *)
(***************************************************************************)
\* C4: a User row is modified or removed only by an update or delete whose
\* session's itemId is the row's id; without a session the update and delete
\* filter is false.
C4_OnlyOwnItemMutable ==
    [][/\ \A u \in users :
            u \notin users' =>
               /\ req'.op \in {"update", "delete"}
               /\ req'.session.kind = "object"
               /\ req'.session.itemId = u.id
       /\ (req'.op \in {"update", "delete"} /\ req'.session.kind # "object") =>
               (req'.filter.kind = "boolean" /\ req'.filter.bool = FALSE)]_vars

\* a session tried to update or delete another, existing user and nothing happened
C4_Witness ==
    /\ req.op \in {"update", "delete"}
    /\ req.session.kind = "object"
    /\ req.session.itemId # req.target
    /\ \E u \in users : u.id = req.target
    /\ \E u \in users : u.id = req.session.itemId
    /\ req.result = {}

\* C5: a query with a session returns only the User whose id is session.itemId.
C5_QueryOnlySelf ==
    (req.op = "query" /\ req.session.kind = "object") =>
        req.result \subseteq {req.session.itemId}

\* C6: every operation on the User list is denied without a session and is
\* allowed at the operation level with any session object, whatever it holds.
C6_OperationNeedsSession ==
    req.op \in {"query", "create", "update", "delete"} =>
        /\ req.allowed = (req.session.kind = "object")
        /\ req.session.kind # "object" => req.result = {}

\* a session for another list and for no existing user is allowed to create
C6_Witness ==
    /\ req.op = "create"
    /\ req.session.kind = "object"
    /\ req.session.listKey = "Other"
    /\ \A u \in users : u.id # req.session.itemId
    /\ req.allowed
    /\ req.result # {}
====
